---- MODULE Spec2Model ----
(***************************************************************************)
(* Token issuance, verification and revocation of app/auth/jwt.py, with    *)
(* the user directory and the revocation store it talks to.                *)
(*                                                                         *)
(* Time is counted in whole clock units: jose writes exp and iat as whole  *)
(* seconds (timegm of the datetime) and compares exp against the whole     *)
(* second of the current time.                                             *)
(***************************************************************************)
EXTENDS Integers, FiniteSets, Sequences, TLC

VARIABLES now, settings, users, issued, blacklist, revokedUntil, storeUp, last, req,
          calcs, uuids, sessions

vars == <<now, settings, users, issued, blacklist, revokedUntil, storeUp, last, req,
          calcs, uuids, sessions>>

----------------------------------------------------------------------------
(* Bounds of the model *)

MaxTime == 3
MaxTokens == 1
MaxJti == 2
MaxUsers == 2
MaxTTL == 2
MaxSkew == 1
MaxDelta == 1
MaxProcs == 2
MaxSalt == 2
MaxAuthJti == 4
MaxLen == 3
MaxAbs == 2
MaxCalcs == 2
MaxSessions == 4

(* Configuration: lifetimes per token type, in clock units. Both are longer *)
(* than the time one call of create_token can take (MaxSkew).               *)

ACCESS_TOKEN_EXPIRE_MINUTES == 2
REFRESH_TOKEN_EXPIRE_DAYS == 3

(* timedelta(minutes=15) of login_json and refresh_token, in clock units *)
LOGIN_DEFAULT_EXPIRE == 2

ACCESS == "access"
REFRESH == "refresh"
TokenType == {ACCESS, REFRESH}

UserIds == 1..MaxUsers
Jtis == 1..MaxJti
Procs == 1..MaxProcs
Salts == 1..MaxSalt
AuthJtis == 1..MaxAuthJti

(* A user id is a UUID or already a string; str() maps the UUID n to the  *)
(* string that spells it.                                                  *)
UUID(n) == [kind |-> "UUID", v |-> n]
StrOf(n) == [kind |-> "str", v |-> n]
Subjects == {UUID(n) : n \in UserIds} \cup {StrOf(n) : n \in UserIds}
str(x) == IF x.kind = "UUID" THEN StrOf(x.v) ELSE x

(* Optional[timedelta]: <<>> is None, <<d>> a duration of d units *)
None == <<>>
Deltas == {None} \cup {<<d>> : d \in (0 - 1)..MaxDelta}
Truthy(expires_delta) == expires_delta # None /\ expires_delta[1] # 0

(* Results of a call: a returned value or a raised exception *)
Return(v) == [ok |-> TRUE, value |-> v]
Raise(code, text) == [ok |-> FALSE, status |-> code, detail |-> text]

(* HTTPException(status_code, detail, headers) *)
RaiseWith(code, text, headers) ==
    [ok |-> FALSE, status |-> code, detail |-> text, headers |-> headers]

----------------------------------------------------------------------------
(* passlib CryptContext(schemes=["bcrypt"]): a stored record names its      *)
(* scheme, its salt and the digest of salt and password. Records that are   *)
(* not such a hash: a string of no known scheme, a bcrypt string cut short, *)
(* and no record at all (None).                                             *)

Passwords == {"Passw0rd1", "Passw0rd2"}

Bcrypt(salt, password) == <<salt, password>>

get_password_hash(password, salt) ==
    [scheme |-> "bcrypt", salt |-> salt, digest |-> Bcrypt(salt, password)]

NoRecord == [scheme |-> "None"]

Malformed ==
    {[scheme |-> "plain", text |-> p] : p \in Passwords}
        \cup {[scheme |-> "bcrypt", salt |-> s] : s \in Salts}

Records ==
    {get_password_hash(p, s) : p \in Passwords, s \in Salts}
        \cup Malformed \cup {NoRecord}

(* pwd_context.verify: None verifies as False; a hash of no configured      *)
(* scheme raises UnknownHashError, a malformed bcrypt string ValueError;    *)
(* verify_password catches neither.                                         *)
verify_password(plain_password, hashed_password) ==
    IF hashed_password = NoRecord THEN Return(FALSE)
    ELSE IF hashed_password.scheme # "bcrypt" THEN Raise(500, "UnknownHashError")
    ELSE IF "digest" \notin DOMAIN hashed_password THEN Raise(500, "ValueError")
    ELSE Return(hashed_password.digest = Bcrypt(hashed_password.salt, plain_password))

----------------------------------------------------------------------------
(* jose: a token is its claims and the key that signed them *)

ForgedKey == "k0"

JwtEncode(claims, secret) ==
    IF claims.sub.kind # "str"
    THEN Raise(500, "Could not create token")
    ELSE Return([key |-> secret, claims |-> claims])

JwtDecode_AlwaysVerifyExp(token, secret, verify_exp, t) ==
    IF token.key # secret
    THEN [exc |-> "JWTError"]
    ELSE IF "exp" \in DOMAIN token.claims /\ token.claims.exp < t
    THEN [exc |-> "ExpiredSignatureError"]
    ELSE [exc |-> "none", payload |-> token.claims]

JwtDecode(token, secret, verify_exp, t) ==
    IF token.key # secret
    THEN [exc |-> "JWTError"]
    ELSE IF verify_exp /\ "exp" \in DOMAIN token.claims /\ token.claims.exp < t
    THEN [exc |-> "ExpiredSignatureError"]
    ELSE [exc |-> "none", payload |-> token.claims]

EncodeSecret_AccessOnly(token_type) == settings.JWT_SECRET_KEY

EncodeSecret(token_type) ==
    IF token_type = ACCESS
    THEN settings.JWT_SECRET_KEY
    ELSE settings.JWT_REFRESH_SECRET_KEY

DecodeSecret(token_type) ==
    IF token_type = ACCESS
    THEN settings.JWT_SECRET_KEY
    ELSE settings.JWT_REFRESH_SECRET_KEY

create_token_OneLifetime(user_id, token_type, expires_delta, t1, t2, jti) ==
    LET expire == IF Truthy(expires_delta)
                  THEN t1 + expires_delta[1]
                  ELSE t1 + REFRESH_TOKEN_EXPIRE_DAYS
        uid == IF user_id.kind = "UUID" THEN str(user_id) ELSE user_id
        to_encode == [sub |-> uid, type |-> token_type, exp |-> expire,
                      iat |-> t2, jti |-> jti]
    IN  JwtEncode(to_encode, EncodeSecret(token_type))

(* create_token: t1 is the clock read that dates exp, t2 the one that     *)
(* dates iat.                                                              *)
create_token(user_id, token_type, expires_delta, t1, t2, jti) ==
    LET expire == IF Truthy(expires_delta)
                  THEN t1 + expires_delta[1]
                  ELSE IF token_type = ACCESS
                       THEN t1 + ACCESS_TOKEN_EXPIRE_MINUTES
                       ELSE t1 + REFRESH_TOKEN_EXPIRE_DAYS
        uid == IF user_id.kind = "UUID" THEN str(user_id) ELSE user_id
        to_encode == [sub |-> uid, type |-> token_type, exp |-> expire,
                      iat |-> t2, jti |-> jti]
    IN  JwtEncode(to_encode, EncodeSecret(token_type))

----------------------------------------------------------------------------
(* Revocation store: jti -> the time its entry lapses. An entry is gone as *)
(* soon as the clock reaches that time (time-based expiry, no sweeper).    *)

is_blacklisted(jti) == jti \in DOMAIN blacklist

Max(a, b) == IF a >= b THEN a ELSE b

add_to_blacklist(store, jti, ttl) ==
    LET until == IF jti \in DOMAIN store THEN Max(store[jti], now + ttl) ELSE now + ttl
    IN  [j \in DOMAIN store \cup {jti} |-> IF j = jti THEN until ELSE store[j]]

Expire_Early(store, t) ==
    LET live == {j \in DOMAIN store : store[j] > t + 1}
    IN  [j \in live |-> store[j]]

Expire(store, t) ==
    LET live == {j \in DOMAIN store : store[j] > t}
    IN  [j \in live |-> store[j]]

----------------------------------------------------------------------------
(* decode_token and get_current_user *)

Pass == [ok |-> TRUE, value |-> "pass"]

TypeCheck_Skipped(payload, token_type) == Pass

(* payload.get("type") != token_type.value *)
TypeCheck(payload, token_type) ==
    IF "type" \notin DOMAIN payload \/ payload.type # token_type
    THEN Raise(401, "Invalid token type")
    ELSE Pass

ClaimsCheck(payload) ==
    IF "sub" \notin DOMAIN payload \/ "jti" \notin DOMAIN payload
    THEN Raise(401, "Invalid token claims")
    ELSE Pass

BlacklistCheck_Skipped(jti) == Pass

BlacklistCheck_FailOpen(jti) ==
    IF storeUp /\ is_blacklisted(jti)
    THEN Raise(401, "Token has been revoked")
    ELSE Pass

BlacklistCheck_AsJWTError(jti) ==
    IF ~storeUp THEN Raise(500, "ConnectionError")
    ELSE IF is_blacklisted(jti) THEN Raise(401, "Could not validate credentials")
    ELSE Pass

(* await is_blacklisted(payload["jti"]): an unreachable store raises, and  *)
(* neither except clause of decode_token catches that.                     *)
BlacklistCheck(jti) ==
    IF ~storeUp THEN Raise(500, "ConnectionError")
    ELSE IF is_blacklisted(jti) THEN Raise(401, "Token has been revoked")
    ELSE Pass

BlacklistKey_Sub(payload) == payload.sub.v

(* the key looked up in the store: payload["jti"] *)
BlacklistKey(payload) == payload.jti

DecodeClaims_ExpiryLast(token, token_type, verify_exp) ==
    LET d == JwtDecode(token, DecodeSecret(token_type), FALSE, now)
        e == JwtDecode(token, DecodeSecret(token_type), verify_exp, now)
    IN  IF d.exc = "JWTError" THEN Raise(401, "Could not validate credentials")
        ELSE IF ~TypeCheck(d.payload, token_type).ok THEN TypeCheck(d.payload, token_type)
        ELSE IF ~ClaimsCheck(d.payload).ok THEN ClaimsCheck(d.payload)
        ELSE IF e.exc = "ExpiredSignatureError" THEN Raise(401, "Token has expired")
        ELSE Return(d.payload)

(* lines 85-113: signature, expiry, type and required claims *)
DecodeClaims(token, token_type, verify_exp) ==
    LET d == JwtDecode(token, DecodeSecret(token_type), verify_exp, now) IN
    IF d.exc = "ExpiredSignatureError" THEN Raise(401, "Token has expired")
    ELSE IF d.exc = "JWTError" THEN Raise(401, "Could not validate credentials")
    ELSE IF ~TypeCheck(d.payload, token_type).ok THEN TypeCheck(d.payload, token_type)
    ELSE IF ~ClaimsCheck(d.payload).ok THEN ClaimsCheck(d.payload)
    ELSE Return(d.payload)

decode_token_CodecOnly(token, token_type, verify_exp) ==
    DecodeClaims(token, token_type, verify_exp)

decode_token(token, token_type, verify_exp) ==
    LET c == DecodeClaims(token, token_type, verify_exp) IN
    IF ~c.ok THEN c
    ELSE IF ~BlacklistCheck(BlacklistKey(c.value)).ok
    THEN BlacklistCheck(BlacklistKey(c.value))
    ELSE Return(c.value)

FindUser(sub) == {u \in users : StrOf(u.id) = sub}

LookupUser_Generic401(payload) ==
    LET found == FindUser(payload.sub) IN
    IF found = {} \/ (CHOOSE u \in found : TRUE).is_active # TRUE
    THEN Raise(401, "Could not validate credentials")
    ELSE Return(CHOOSE u \in found : TRUE)

(* lines 150-157: user lookup and active flag *)
LookupUser(payload) ==
    LET found == FindUser(payload.sub) IN
    IF found = {} THEN Raise(404, "User not found")
    ELSE LET user == CHOOSE u \in found : TRUE IN
         IF user.is_active # TRUE THEN Raise(400, "Inactive user")
         ELSE Return(user)

get_current_user_NoActiveCheck(token) ==
    LET res == decode_token(token, ACCESS, TRUE) IN
    IF ~res.ok THEN res
    ELSE LET found == FindUser(res.value.sub) IN
         IF found = {} THEN Raise(404, "User not found")
         ELSE Return(CHOOSE u \in found : TRUE)

get_current_user(token) ==
    LET res == decode_token(token, ACCESS, TRUE) IN
    IF ~res.ok THEN res
    ELSE LookupUser(res.value)

----------------------------------------------------------------------------
(* Login and refresh: User.authenticate and User.refresh_access_token       *)
(* (app/models/user.py) and the handlers of app/main.py that call them.     *)
(* A username is the number of the user it belongs to.                      *)

Datetime(t, tz) == [kind |-> "datetime", tzinfo |-> tz, t |-> t]
Missing == [kind |-> "missing"]
NonDatetime == [kind |-> "str"]

(* What an authentication result can carry under "expires_at" at time t:    *)
(* nothing, a value that is no datetime, or a datetime, aware or naive,     *)
(* before, at or after t.                                                   *)
SuppliedExpiry(t) ==
    {Missing, NonDatetime}
        \cup {Datetime(t + d, tz) : d \in {0 - 1, 0, ACCESS_TOKEN_EXPIRE_MINUTES},
                                    tz \in {"utc", "naive"}}

NoneResult == [is_none |-> TRUE]

FindByUsername(username) == {u \in users : u.id = username}

(* login, first half: look the user up, verify the password *)
CheckCredentials(username, password) ==
    LET found == FindByUsername(username) IN
    IF found = {} THEN Return(NoneResult)
    ELSE LET user == CHOOSE u \in found : TRUE
             v == verify_password(password, user.hashed_password)
         IN  IF ~v.ok THEN v
             ELSE IF ~v.value THEN Return(NoneResult)
             ELSE Return(user)

(* an access and a refresh token for the user, issued one after the other *)
IssuePair(user, t1, t2, jtis, supplied) ==
    LET a == create_token(UUID(user.id), ACCESS, None, t1, t2, jtis[1])
        r == create_token(UUID(user.id), REFRESH, None, t2, t2, jtis[2])
    IN  Return([is_none |-> FALSE, access_token |-> a.value,
                refresh_token |-> r.value, expires_at |-> supplied, user |-> user])

authenticate(username, password, t1, t2, jtis, supplied) ==
    LET c == CheckCredentials(username, password) IN
    IF ~c.ok \/ c.value = NoneResult THEN c
    ELSE IssuePair(c.value, t1, t2, jtis, supplied)

TokenResponse(tokens, expires_at) ==
    [access_token |-> tokens.access_token, refresh_token |-> tokens.refresh_token,
     token_type |-> "bearer", expires_at |-> expires_at,
     user_id |-> tokens.user.id, is_active |-> tokens.user.is_active]

login_json_NaiveKept(auth_result, t) ==
    IF auth_result = NoneResult
    THEN RaiseWith(401, "Invalid username or password", [WWW_Authenticate |-> "Bearer"])
    ELSE LET supplied == auth_result.expires_at
             expires_at == IF supplied.kind # "datetime"
                           THEN Datetime(t + LOGIN_DEFAULT_EXPIRE, "utc")
                           ELSE supplied
         IN  Return(TokenResponse(auth_result, expires_at))

(* POST /auth/login, from the result of User.authenticate on; t is the      *)
(* clock when the handler builds the response.                              *)
login_json(auth_result, t) ==
    IF auth_result = NoneResult
    THEN RaiseWith(401, "Invalid username or password", [WWW_Authenticate |-> "Bearer"])
    ELSE LET supplied == auth_result.expires_at
             expires_at == IF supplied.kind # "datetime"
                           THEN Datetime(t + LOGIN_DEFAULT_EXPIRE, "utc")
                           ELSE IF supplied.tzinfo = "naive"
                           THEN [supplied EXCEPT !.tzinfo = "utc"]
                           ELSE supplied
         IN  Return(TokenResponse(auth_result, expires_at))

login_form_NoHeader(auth_result) ==
    IF auth_result = NoneResult
    THEN Raise(401, "Invalid username or password")
    ELSE Return([access_token |-> auth_result.access_token, token_type |-> "bearer"])

(* POST /auth/token *)
login_form(auth_result) ==
    IF auth_result = NoneResult
    THEN RaiseWith(401, "Invalid username or password", [WWW_Authenticate |-> "Bearer"])
    ELSE Return([access_token |-> auth_result.access_token, token_type |-> "bearer"])

ValueError(text) == [ok |-> FALSE, exc |-> "ValueError", detail |-> text]

(* refresh, first half: decode as a refresh token (revocation included),    *)
(* resolve the user, check it is active                                     *)
CheckRefresh(token) ==
    LET d == decode_token(token, REFRESH, TRUE) IN
    IF ~d.ok THEN d
    ELSE LET found == FindUser(d.value.sub) IN
         IF found = {} THEN ValueError("User not found")
         ELSE LET user == CHOOSE u \in found : TRUE IN
              IF user.is_active # TRUE THEN ValueError("Inactive user")
              ELSE Return(user)

refresh_access_token(token, t1, t2, jtis, supplied) ==
    LET c == CheckRefresh(token) IN
    IF ~c.ok THEN c
    ELSE IssuePair(c.value, t1, t2, jtis, supplied)

(* POST /auth/refresh, from the result of User.refresh_access_token on *)
refresh_token(new_tokens, t) ==
    IF ~new_tokens.ok
    THEN IF "exc" \in DOMAIN new_tokens
         THEN Raise(401, new_tokens.detail)
         ELSE new_tokens
    ELSE LET supplied == new_tokens.value.expires_at
             expires_at == IF supplied.kind = "missing"
                           THEN Datetime(t + LOGIN_DEFAULT_EXPIRE, "utc")
                           ELSE supplied
         IN  IF expires_at.kind # "datetime" THEN Raise(500, "AttributeError")
             ELSE Return(TokenResponse(new_tokens.value,
                                       IF expires_at.tzinfo = "naive"
                                       THEN [expires_at EXCEPT !.tzinfo = "utc"]
                                       ELSE expires_at))

----------------------------------------------------------------------------
(* Calculations (app/models/calculation.py). Inputs are lists of numbers;   *)
(* a quotient is kept exact, as the pair <<n, d>> in lowest terms, d > 0.   *)

Values == (0 - MaxAbs)..MaxAbs

Lists == UNION {[1..n -> Values] : n \in 0..MaxLen}

(* self.inputs: a list, or a value that is no list *)
List(items) == [kind |-> "list", items |-> items]
NotAList == [kind |-> "str"]
Inputs == {List(items) : items \in Lists} \cup {NotAList}

CalculationClasses == {"addition", "subtraction", "multiplication", "division", "modulus"}

Abs(a) == IF a < 0 THEN 0 - a ELSE a

RECURSIVE Gcd(_, _)
Gcd(a, b) == IF b = 0 THEN a ELSE Gcd(b, a % b)

(* the number n / d, d # 0 *)
Quotient(n, d) ==
    LET g == Gcd(Abs(n), Abs(d))
        sign == IF d < 0 THEN 0 - 1 ELSE 1
    IN  <<(sign * n) \div g, (sign * d) \div g>>

PyMod_Truncated(a, b) ==
    a - b * ((IF (a < 0) # (b < 0) THEN 0 - 1 ELSE 1) * (Abs(a) \div Abs(b)))

(* Python's %: the remainder has the sign of the divisor *)
PyMod(a, b) == a - b * (a \div b)

RECURSIVE AddAll(_, _)
AddAll(result, values) ==
    IF values = <<>> THEN result
    ELSE AddAll(result + Head(values), Tail(values))

RECURSIVE SubtractEach(_, _)
SubtractEach(result, values) ==
    IF values = <<>> THEN result
    ELSE SubtractEach(result - Head(values), Tail(values))

RECURSIVE MultiplyEach(_, _)
MultiplyEach(result, values) ==
    IF values = <<>> THEN result
    ELSE MultiplyEach(result * Head(values), Tail(values))

RECURSIVE DivideEach_SkipZero(_, _)
DivideEach_SkipZero(result, values) ==
    IF values = <<>> THEN Return(result)
    ELSE IF Head(values) = 0 THEN DivideEach_SkipZero(result, Tail(values))
    ELSE DivideEach_SkipZero(Quotient(result[1], result[2] * Head(values)), Tail(values))

RECURSIVE DivideEach(_, _)
DivideEach(result, values) ==
    IF values = <<>> THEN Return(result)
    ELSE IF Head(values) = 0 THEN ValueError("Cannot divide by zero.")
    ELSE DivideEach(Quotient(result[1], result[2] * Head(values)), Tail(values))

RECURSIVE ModEach(_, _)
ModEach(result, values) ==
    IF values = <<>> THEN Return(result)
    ELSE IF Head(values) = 0 THEN Raise(500, "ZeroDivisionError")
    ELSE ModEach(PyMod(result, Head(values)), Tail(values))

CheckInputs_AtLeastOne(inputs) ==
    IF inputs.kind # "list" THEN ValueError("Inputs must be a list of numbers.")
    ELSE IF Len(inputs.items) < 1
    THEN ValueError("Inputs must be a list with at least two numbers.")
    ELSE Pass

(* the checks every get_result begins with *)
CheckInputs(inputs) ==
    IF inputs.kind # "list" THEN ValueError("Inputs must be a list of numbers.")
    ELSE IF Len(inputs.items) < 2
    THEN ValueError("Inputs must be a list with at least two numbers.")
    ELSE Pass

(* get_result of the class that type names, on self.inputs *)
get_result(type, inputs) ==
    IF ~CheckInputs(inputs).ok THEN CheckInputs(inputs)
    ELSE LET first == Head(inputs.items)
             rest == Tail(inputs.items)
         IN  IF type = "addition" THEN Return(AddAll(0, inputs.items))
             ELSE IF type = "subtraction" THEN Return(SubtractEach(first, rest))
             ELSE IF type = "multiplication" THEN Return(MultiplyEach(1, inputs.items))
             ELSE IF type = "division" THEN DivideEach(Quotient(first, 1), rest)
             ELSE ModEach(first, rest)

(* app/schemas/calculation.py: the request bodies of POST and PUT *)

CalculationType == {"addition", "subtraction", "multiplication", "division"}

(* CalculationBase: type of the enum, at least two inputs, no zero divisor  *)
(* for a division                                                           *)
CalculationBase(type, inputs) ==
    IF type \notin CalculationType
    THEN Raise(422, "Type must be one of: addition, division, multiplication, subtraction")
    ELSE IF Len(inputs) < 2
    THEN Raise(422, "At least two numbers are required for calculation")
    ELSE IF type = "division" /\ \E i \in 2..Len(inputs) : inputs[i] = 0
    THEN Raise(422, "Cannot divide by zero")
    ELSE Pass

(* CalculationUpdate: inputs absent (None) or at least two *)
CalculationUpdate(update) ==
    IF update # None /\ Len(update[1]) < 2
    THEN Raise(422, "At least two numbers are required for calculation")
    ELSE Pass

(* Type strings a caller can pass to Calculation.create: the names of the   *)
(* classes in several spellings, and strings that name no class            *)
TypeStrings ==
    {"addition", "Addition", "ADDITION", "subtraction", "SubTraction",
     "multiplication", "MULTIPLICATION", "division", "Division",
     "modulus", "MODULUS", "power", "Power", ""}

lower_AsIs(s) == s

(* str.lower on the type strings *)
lower(s) ==
    CASE s \in {"Addition", "ADDITION"} -> "addition"
      [] s = "SubTraction" -> "subtraction"
      [] s = "MULTIPLICATION" -> "multiplication"
      [] s = "Division" -> "division"
      [] s = "MODULUS" -> "modulus"
      [] s = "Power" -> "power"
      [] OTHER -> s

(* Calculation.create: the instance of the class registered under the      *)
(* lowered type string; the class of an instance is its polymorphic        *)
(* identity                                                                *)
create(calculation_type, user_id, inputs) ==
    IF lower(calculation_type) \notin CalculationClasses
    THEN ValueError(<<"Unsupported calculation type: ", calculation_type>>)
    ELSE Return([type |-> lower(calculation_type), user_id |-> user_id,
                 inputs |-> inputs])

(* Calculation.create followed by get_result, as create_calculation runs    *)
(* them: the stored row, or the ValueError that becomes a 400               *)
new_calculation(id, calculation_type, user_id, inputs) ==
    LET made == create(calculation_type, user_id, inputs) IN
    IF ~made.ok THEN made
    ELSE LET r == get_result(made.value.type, List(made.value.inputs)) IN
         IF ~r.ok THEN r
         ELSE Return([id |-> id, user_id |-> made.value.user_id,
                      type |-> made.value.type,
                      inputs |-> made.value.inputs, result |-> r.value])

ApplyUpdate_StaleResult(calculation, inputs) ==
    Return([calculation EXCEPT !.inputs = inputs])

(* update_calculation, lines 326-328: new inputs, result computed again *)
ApplyUpdate(calculation, inputs) ==
    LET r == get_result(calculation.type, List(inputs)) IN
    IF ~r.ok THEN r
    ELSE Return([calculation EXCEPT !.inputs = inputs, !.result = r.value])

----------------------------------------------------------------------------
(* Tokens a client can present: the issued ones, and those tokens changed *)

Without(claims, name) == [n \in DOMAIN claims \ {name} |-> claims[n]]

OtherType(token_type) == IF token_type = ACCESS THEN REFRESH ELSE ACCESS

Variants(tok) ==
    { [tok EXCEPT !.key = ForgedKey],
      [tok EXCEPT !.claims = Without(tok.claims, "sub")],
      [tok EXCEPT !.claims = Without(tok.claims, "jti")],
      [tok EXCEPT !.claims = Without(tok.claims, "exp")],
      [tok EXCEPT !.claims.type = OtherType(tok.claims.type)] }

IssuedTokens == {i.token : i \in issued}

Presentable == IssuedTokens \cup UNION {Variants(tok) : tok \in IssuedTokens}

----------------------------------------------------------------------------
(* Initial state and actions *)

NoOp == [op |-> "none"]

IdleReq == [pc |-> "idle"]

Init ==
    /\ now = 0
    /\ settings \in {[JWT_SECRET_KEY |-> "k1", JWT_REFRESH_SECRET_KEY |-> k] : k \in {"k1", "k2"}}
    /\ users = {}
    /\ issued = {}
    /\ blacklist = <<>>
    /\ revokedUntil = <<>>
    /\ storeUp = TRUE
    /\ last = NoOp
    /\ req = [p \in Procs |-> IdleReq]
    /\ calcs = {}
    /\ uuids = {}
    /\ sessions = <<>>

(* The clock moves on; revocation entries whose time has come are gone *)
Tick ==
    /\ now < MaxTime
    /\ now' = now + 1
    /\ blacklist' = Expire(blacklist, now + 1)
    /\ last' = NoOp
    /\ UNCHANGED <<settings, users, issued, revokedUntil, storeUp, req, calcs, uuids, sessions>>

(* secrets.token_hex(16): an id no token carries and nobody has named yet *)
UnusedJtis == {j \in Jtis : j \notin DOMAIN revokedUntil
                             /\ \A i \in issued : i.token.claims.jti # j}

FreshJti == CHOOSE j \in UnusedJtis : TRUE

CreateToken(overrides) ==
    /\ Cardinality(issued) < MaxTokens
    /\ UnusedJtis # {}
    /\ \E user_id \in Subjects, token_type \in TokenType, expires_delta \in overrides,
          skew \in 0..MaxSkew :
          /\ now + skew <= MaxTime
          /\ LET res == create_token(user_id, token_type, expires_delta,
                                     now, now + skew, FreshJti)
             IN  /\ res.ok
                 /\ issued' = issued \cup {[token |-> res.value, user_id |-> user_id,
                                            token_type |-> token_type,
                                            expires_delta |-> expires_delta]}
                 /\ last' = NoOp
          /\ now' = now + skew
          /\ blacklist' = Expire(blacklist, now + skew)
    /\ UNCHANGED <<settings, users, revokedUntil, storeUp, req, calcs, uuids, sessions>>

CreateTokenDefault == CreateToken({None})

(* create_token called with any expires_delta: None, zero, negative, positive *)
CreateTokenOverride == CreateToken(Deltas)

DecodeToken ==
    /\ \E token \in Presentable, token_type \in TokenType, verify_exp \in BOOLEAN :
          last' = [op |-> "decode_token", token |-> token, token_type |-> token_type,
                   verify_exp |-> verify_exp,
                   res |-> decode_token(token, token_type, verify_exp)]
    /\ UNCHANGED <<now, settings, users, issued, blacklist, revokedUntil, storeUp, req, calcs, uuids, sessions>>

GetCurrentUser ==
    /\ \E token \in Presentable :
          last' = [op |-> "get_current_user", token |-> token,
                   decoded |-> decode_token(token, ACCESS, TRUE),
                   res |-> get_current_user(token)]
    /\ UNCHANGED <<now, settings, users, issued, blacklist, revokedUntil, storeUp, req, calcs, uuids, sessions>>

Revoke ==
    /\ storeUp
    /\ \E jti \in Jtis, ttl \in 1..MaxTTL :
          /\ blacklist' = add_to_blacklist(blacklist, jti, ttl)
          /\ revokedUntil' = [j \in DOMAIN revokedUntil \cup {jti} |->
                                IF j = jti
                                THEN IF j \in DOMAIN revokedUntil
                                     THEN Max(revokedUntil[j], now + ttl)
                                     ELSE now + ttl
                                ELSE revokedUntil[j]]
          /\ last' = NoOp
    /\ UNCHANGED <<now, settings, users, issued, storeUp, req, calcs, uuids, sessions>>

StoreOutage ==
    /\ storeUp' = ~storeUp
    /\ last' = NoOp
    /\ UNCHANGED <<now, settings, users, issued, blacklist, revokedUntil, req, calcs, uuids, sessions>>

(* User.register stores the hash of the password, never the password *)
RegisterWith(passwords, salts) ==
    /\ \E n \in UserIds, password \in passwords, salt \in salts :
          /\ \A u \in users : u.id # n
          /\ users' = users \cup
                {[id |-> n, is_active |-> TRUE,
                  hashed_password |-> get_password_hash(password, salt)]}
    /\ last' = NoOp
    /\ UNCHANGED <<now, settings, issued, blacklist, revokedUntil, storeUp, req, calcs, uuids, sessions>>

Register == RegisterWith({"Passw0rd1"}, {1})

Deactivate ==
    /\ \E u \in users :
          /\ u.is_active
          /\ users' = (users \ {u}) \cup {[u EXCEPT !.is_active = FALSE]}
    /\ last' = NoOp
    /\ UNCHANGED <<now, settings, issued, blacklist, revokedUntil, storeUp, req, calcs, uuids, sessions>>

DeleteUser ==
    /\ \E u \in users : users' = users \ {u}
    /\ last' = NoOp
    /\ UNCHANGED <<now, settings, issued, blacklist, revokedUntil, storeUp, req, calcs, uuids, sessions>>

(* Token ids of the login and refresh flows *)
AuthUnusedJtis == {j \in AuthJtis : j \notin DOMAIN revokedUntil
                                     /\ \A i \in issued : i.token.claims.jti # j}

Least(S) == CHOOSE j \in S : \A k \in S : j <= k

FreshPair == <<Least(AuthUnusedJtis), Least(AuthUnusedJtis \ {Least(AuthUnusedJtis)})>>

PairIssued(tokens) ==
    {[token |-> tokens.access_token, user_id |-> UUID(tokens.user.id),
      token_type |-> ACCESS, expires_delta |-> None],
     [token |-> tokens.refresh_token, user_id |-> UUID(tokens.user.id),
      token_type |-> REFRESH, expires_delta |-> None]}

(* A login request that passed the UserLogin schema. The clock moves only   *)
(* while tokens are being issued.                                           *)
LoginJson ==
    /\ \E username \in UserIds, password \in Passwords :
          LET c == CheckCredentials(username, password) IN
          IF ~c.ok \/ c.value = NoneResult
          THEN /\ last' = [op |-> "login_json", username |-> username,
                           password |-> password, at |-> now,
                           res |-> IF c.ok THEN login_json(c.value, now) ELSE c]
               /\ UNCHANGED <<now, issued, blacklist>>
          ELSE /\ Cardinality(AuthUnusedJtis) >= 2
               /\ \E skew \in 0..MaxSkew, supplied \in SuppliedExpiry(now) :
                     /\ now + skew <= MaxTime
                     /\ LET auth == authenticate(username, password, now, now + skew,
                                                FreshPair, supplied)
                        IN  /\ issued' = issued \cup PairIssued(auth.value)
                            /\ last' = [op |-> "login_json", username |-> username,
                                        password |-> password, at |-> now,
                                        supplied |-> supplied,
                                        res |-> login_json(auth.value, now + skew)]
                     /\ now' = now + skew
                     /\ blacklist' = Expire(blacklist, now + skew)
    /\ UNCHANGED <<settings, users, revokedUntil, storeUp, req, calcs, uuids, sessions>>

LoginForm ==
    /\ \E username \in UserIds, password \in Passwords :
          LET c == CheckCredentials(username, password) IN
          IF ~c.ok \/ c.value = NoneResult
          THEN /\ last' = [op |-> "login_form", username |-> username,
                           password |-> password, at |-> now,
                           res |-> IF c.ok THEN login_form(c.value) ELSE c]
               /\ UNCHANGED <<now, issued, blacklist>>
          ELSE /\ Cardinality(AuthUnusedJtis) >= 2
               /\ \E skew \in 0..MaxSkew :
                     /\ now + skew <= MaxTime
                     /\ LET auth == authenticate(username, password, now, now + skew,
                                                FreshPair, Missing)
                        IN  /\ issued' = issued \cup PairIssued(auth.value)
                            /\ last' = [op |-> "login_form", username |-> username,
                                        password |-> password, at |-> now,
                                        res |-> login_form(auth.value)]
                     /\ now' = now + skew
                     /\ blacklist' = Expire(blacklist, now + skew)
    /\ UNCHANGED <<settings, users, revokedUntil, storeUp, req, calcs, uuids, sessions>>

RefreshSupplied(t) == {Missing, Datetime(t + ACCESS_TOKEN_EXPIRE_MINUTES, "naive")}

(* A client presents one of the tokens it was given, of either type *)
RefreshToken ==
    /\ \E token \in IssuedTokens :
          LET c == CheckRefresh(token) IN
          IF ~c.ok
          THEN /\ last' = [op |-> "refresh_token", token |-> token, at |-> now,
                           res |-> refresh_token(c, now)]
               /\ UNCHANGED <<now, issued, blacklist>>
          ELSE /\ Cardinality(AuthUnusedJtis) >= 2
               /\ \E skew \in 0..MaxSkew, supplied \in RefreshSupplied(now) :
                     /\ now + skew <= MaxTime
                     /\ LET new_tokens == refresh_access_token(token, now, now + skew,
                                                              FreshPair, supplied)
                        IN  /\ issued' = issued \cup PairIssued(new_tokens.value)
                            /\ last' = [op |-> "refresh_token", token |-> token,
                                        at |-> now,
                                        res |-> refresh_token(new_tokens, now + skew)]
                     /\ now' = now + skew
                     /\ blacklist' = Expire(blacklist, now + skew)
    /\ UNCHANGED <<settings, users, revokedUntil, storeUp, req, calcs, uuids, sessions>>

(* get_password_hash applied to any password, under any salt *)
HashPassword ==
    /\ \E password \in Passwords, salt \in Salts :
          last' = [op |-> "get_password_hash", password |-> password,
                   res |-> Return(get_password_hash(password, salt))]
    /\ UNCHANGED <<now, settings, users, issued, blacklist, revokedUntil, storeUp, req, calcs, uuids, sessions>>

(* verify_password applied to any password and any stored record *)
VerifyPassword ==
    /\ \E plain_password \in Passwords, hashed_password \in Records :
          last' = [op |-> "verify_password", plain_password |-> plain_password,
                   hashed_password |-> hashed_password,
                   res |-> verify_password(plain_password, hashed_password)]
    /\ UNCHANGED <<now, settings, users, issued, blacklist, revokedUntil, storeUp, req, calcs, uuids, sessions>>

(* get_result of any calculation class on any inputs *)
GetResult ==
    /\ \E type \in CalculationClasses, inputs \in Inputs :
          last' = [op |-> "get_result", type |-> type, inputs |-> inputs,
                   res |-> get_result(type, inputs)]
    /\ UNCHANGED <<now, settings, users, issued, blacklist, revokedUntil, storeUp, req, calcs, uuids, sessions>>

(* Calculation.create on any type string, for any user and inputs *)
Create ==
    /\ \E calculation_type \in TypeStrings, user_id \in UserIds,
          inputs \in {<<>>, <<MaxAbs>>, <<1, 0>>} :
          last' = [op |-> "create", calculation_type |-> calculation_type,
                   user_id |-> user_id, inputs |-> inputs,
                   res |-> create(calculation_type, user_id, inputs)]
    /\ UNCHANGED <<now, settings, users, issued, blacklist, revokedUntil, storeUp, req, calcs, uuids, sessions>>

(* Requests of the calculation routes. The caller is the user that         *)
(* get_current_active_user resolved; ids are the UUIDs given out so far,    *)
(* or a string that is no UUID.                                             *)
RequestLists == {items \in Lists : /\ Len(items) <= 2
                                    /\ \A i \in 1..Len(items) : items[i] \in {0, MaxAbs}}

RequestTypes == {"addition", "division", "modulus"}

CalcIds == 1..MaxCalcs

NotAUuid == 0

(* uuid4 as the default of the id column: an id it has not given out *)
FreshCalcId == Least(CalcIds \ uuids)

(* an exception the handler does not catch: the session is closed, nothing *)
(* is committed                                                            *)
Unhandled(exc) == IF "exc" \in DOMAIN exc THEN Raise(500, exc.detail) ELSE exc

calc_uuid_Lenient(calc_id) == Return(calc_id)

(* UUID(calc_id), a ValueError answered with 400 *)
calc_uuid(calc_id) ==
    IF calc_id = NotAUuid THEN Raise(400, "Invalid calculation id format.")
    ELSE Return(calc_id)

OwnedBy_Anyone(calc_id, user_id) == {c \in calcs : c.id = calc_id}

(* the query of the three routes: the row of that id and that owner *)
OwnedBy(calc_id, user_id) == {c \in calcs : c.id = calc_id /\ c.user_id = user_id}

(* calc_uuid, then the query: the calculation, 400 or 404 *)
FindCalculation(calc_id, user_id) ==
    IF ~calc_uuid(calc_id).ok THEN calc_uuid(calc_id)
    ELSE IF OwnedBy(calc_id, user_id) = {} THEN Raise(404, "Calculation not found.")
    ELSE Return(CHOOSE c \in OwnedBy(calc_id, user_id) : TRUE)

CreateCalculation ==
    /\ \E user_id \in UserIds, type \in RequestTypes, inputs \in RequestLists :
          LET body == CalculationBase(type, inputs)
              made == new_calculation(FreshCalcId, type, user_id, inputs)
          IN  IF ~body.ok
              THEN /\ last' = [op |-> "create_calculation", user_id |-> user_id,
                               res |-> body]
                   /\ UNCHANGED <<calcs, uuids, sessions>>
              ELSE /\ uuids # CalcIds
                   /\ IF made.ok
                      THEN /\ calcs' = calcs \cup {made.value}
                           /\ uuids' = uuids \cup {made.value.id}
                           /\ last' = [op |-> "create_calculation", user_id |-> user_id,
                                       res |-> made]
                      ELSE /\ UNCHANGED <<calcs, uuids, sessions>>
                           /\ last' = [op |-> "create_calculation", user_id |-> user_id,
                                       res |-> Raise(400, made.detail)]
    /\ UNCHANGED <<now, settings, users, issued, blacklist, revokedUntil, storeUp, req, sessions>>

UpdateCalculation ==
    /\ \E user_id \in UserIds, calc_id \in CalcIds \cup {NotAUuid},
          update \in {None} \cup {<<items>> : items \in RequestLists} :
          LET body == CalculationUpdate(update)
              calculation == FindCalculation(calc_id, user_id)
              res == IF ~body.ok THEN body
                     ELSE IF ~calculation.ok THEN calculation
                     ELSE IF update = None THEN calculation
                     ELSE Unhandled(ApplyUpdate(calculation.value, update[1]))
          IN  /\ last' = [op |-> "update_calculation", user_id |-> user_id,
                          calc_id |-> calc_id, update |-> update, res |-> res]
              /\ calcs' = IF res.ok THEN (calcs \ {calculation.value}) \cup {res.value}
                          ELSE calcs
    /\ UNCHANGED <<now, settings, users, issued, blacklist, revokedUntil, storeUp, req, uuids, sessions>>

(* the rows left of a sequence after offset rows are skipped and at most   *)
(* limit rows are taken                                                    *)
Page(rows, offset, limit) ==
    SubSeq(rows, offset + 1, IF offset + limit < Len(rows) THEN offset + limit ELSE Len(rows))

(* the rows of a set, newest first; a later row has the greater id *)
RECURSIVE NewestFirst(_)
NewestFirst(rows) ==
    IF rows = {} THEN <<>>
    ELSE LET newest == CHOOSE c \in rows : \A d \in rows : d.id <= c.id
         IN  <<newest>> \o NewestFirst(rows \ {newest})

ListCalculations ==
    /\ \E user_id \in UserIds, limit \in 1..MaxCalcs, offset \in 0..1 :
          last' = [op |-> "list_calculations", user_id |-> user_id,
                   limit |-> limit, offset |-> offset,
                   res |-> Return(Page(NewestFirst({c \in calcs : c.user_id = user_id}),
                                       offset, limit))]
    /\ UNCHANGED <<now, settings, users, issued, blacklist, revokedUntil, storeUp, req, calcs, uuids, sessions>>

GetCalculation ==
    /\ \E user_id \in UserIds, calc_id \in CalcIds \cup {NotAUuid} :
          last' = [op |-> "get_calculation", user_id |-> user_id, calc_id |-> calc_id,
                   res |-> FindCalculation(calc_id, user_id)]
    /\ UNCHANGED <<now, settings, users, issued, blacklist, revokedUntil, storeUp, req, calcs, uuids, sessions>>

Deleted_NotCommitted(calculation) == calcs

(* db.delete(calculation); db.commit() *)
Deleted(calculation) == calcs \ {calculation}

(* status_code=204, the handler returns None *)
NoContent == [ok |-> TRUE, status |-> 204]

DeleteCalculation ==
    /\ \E user_id \in UserIds, calc_id \in CalcIds \cup {NotAUuid} :
          LET calculation == FindCalculation(calc_id, user_id) IN
          /\ last' = [op |-> "delete_calculation", user_id |-> user_id,
                      calc_id |-> calc_id,
                      res |-> IF calculation.ok THEN NoContent ELSE calculation]
          /\ calcs' = IF calculation.ok THEN Deleted(calculation.value) ELSE calcs
    /\ UNCHANGED <<now, settings, users, issued, blacklist, revokedUntil, storeUp, req, uuids, sessions>>

(* get_db, one generator per request p: db = SessionLocal(), the yield    *)
(* during which the handler runs, and the finally clause. sessions[s] is   *)
(* the number of close() calls session s has received.                     *)
after_yield_NoFinally(outcome) == IF outcome = "raised" THEN "done" ELSE "finally"

(* try: yield db / finally: where control goes when the handler is over *)
after_yield(outcome) == "finally"

GetDb(p) ==
    /\ req[p].pc \in {"idle", "done"}
    /\ Len(sessions) < MaxSessions
    /\ sessions' = Append(sessions, 0)
    /\ req' = [req EXCEPT ![p] = [pc |-> "yield", db |-> Len(sessions) + 1]]
    /\ last' = NoOp
    /\ UNCHANGED <<now, settings, users, issued, blacklist, revokedUntil, storeUp, calcs, uuids>>

(* the handler is over: the generator is resumed or the exception thrown   *)
(* into it                                                                 *)
HandlerEnds(p, outcome) ==
    /\ req[p].pc = "yield"
    /\ req' = [req EXCEPT ![p] = [pc |-> after_yield(outcome), db |-> req[p].db,
                                  outcome |-> outcome]]
    /\ last' = NoOp
    /\ UNCHANGED <<now, settings, users, issued, blacklist, revokedUntil, storeUp, calcs, uuids, sessions>>

HandlerReturns(p) == HandlerEnds(p, "returned")

HandlerRaises(p) == HandlerEnds(p, "raised")

(* finally: db.close() *)
CloseDb(p) ==
    /\ req[p].pc = "finally"
    /\ sessions' = [sessions EXCEPT ![req[p].db] = @ + 1]
    /\ req' = [req EXCEPT ![p] = [pc |-> "done", db |-> req[p].db,
                                  outcome |-> req[p].outcome]]
    /\ last' = NoOp
    /\ UNCHANGED <<now, settings, users, issued, blacklist, revokedUntil, storeUp, calcs, uuids>>

(* One request handler p running get_current_user step by step: the code  *)
(* up to the await of is_blacklisted, the store's answer, then the user   *)
(* lookup. Other handlers and the clock run in between.                   *)
ReqDecode(p) ==
    /\ req[p].pc \in {"idle", "done"}
    /\ \E token \in Presentable :
          LET c == DecodeClaims(token, ACCESS, TRUE) IN
          req' = [req EXCEPT ![p] =
                    IF c.ok
                    THEN [pc |-> "await_blacklist", payload |-> c.value]
                    ELSE [pc |-> "done", res |-> c, covered |-> FALSE]]
    /\ UNCHANGED <<now, settings, users, issued, blacklist, revokedUntil, storeUp, last, calcs, uuids, sessions>>

ReqBlacklist(p) ==
    /\ req[p].pc = "await_blacklist"
    /\ LET b == BlacklistCheck(BlacklistKey(req[p].payload))
           covered == /\ req[p].payload.jti \in DOMAIN revokedUntil
                      /\ now < revokedUntil[req[p].payload.jti]
       IN  req' = [req EXCEPT ![p] =
                     IF b.ok
                     THEN [pc |-> "lookup", payload |-> req[p].payload,
                           covered |-> covered]
                     ELSE [pc |-> "done", res |-> b, covered |-> covered]]
    /\ UNCHANGED <<now, settings, users, issued, blacklist, revokedUntil, storeUp, last, calcs, uuids, sessions>>

ReqLookup(p) ==
    /\ req[p].pc = "lookup"
    /\ req' = [req EXCEPT ![p] = [pc |-> "done",
                                  res |-> LookupUser(req[p].payload),
                                  covered |-> req[p].covered]]
    /\ UNCHANGED <<now, settings, users, issued, blacklist, revokedUntil, storeUp, last, calcs, uuids, sessions>>

(* The resolver: tokens are issued, revoked and resolved to users *)
Next ==
    \/ Tick
    \/ CreateTokenDefault
    \/ GetCurrentUser
    \/ Revoke
    \/ StoreOutage
    \/ Register
    \/ Deactivate
    \/ DeleteUser

Spec == Init /\ [][Next]_vars

(* The codec: tokens are issued, revoked and decoded *)
NextCodec ==
    \/ Tick
    \/ CreateTokenDefault
    \/ DecodeToken
    \/ Revoke
    \/ StoreOutage

SpecCodec == Init /\ [][NextCodec]_vars

(* Concurrent handlers: resolutions interleaved with revocations *)
NextConc ==
    \/ Tick
    \/ CreateTokenDefault
    \/ Revoke
    \/ Register
    \/ \E p \in Procs : ReqDecode(p)
    \/ \E p \in Procs : ReqBlacklist(p)
    \/ \E p \in Procs : ReqLookup(p)

SpecConc == Init /\ [][NextConc]_vars

(* Issuance alone: create_token with every kind of expires_delta *)
NextIssue ==
    \/ Tick
    \/ CreateTokenOverride

SpecIssue == Init /\ [][NextIssue]_vars

(* Login: users register, are deactivated, and log in on both endpoints *)
NextLogin ==
    \/ Tick
    \/ Register
    \/ Deactivate
    \/ LoginJson
    \/ LoginForm

SpecLogin == Init /\ [][NextLogin]_vars

(* Refresh: users log in, tokens are revoked and presented for refresh *)
NextRefresh ==
    \/ Tick
    \/ LoginForm
    \/ Register
    \/ Deactivate
    \/ Revoke
    \/ RefreshToken

SpecRefresh == Init /\ [][NextRefresh]_vars

(* The password hasher alone *)
NextPassword ==
    \/ Tick
    \/ HashPassword
    \/ VerifyPassword

SpecPassword == Init /\ [][NextPassword]_vars

(* The calculation classes alone *)
NextResult ==
    \/ GetResult
    \/ Create

SpecResult == Init /\ [][NextResult]_vars

(* The database session of each request. A request that has begun is run  *)
(* to its end: the handler returns or raises, and the generator is then    *)
(* finished.                                                               *)
NextDb ==
    \/ \E p \in Procs : GetDb(p)
    \/ \E p \in Procs : HandlerReturns(p)
    \/ \E p \in Procs : HandlerRaises(p)
    \/ \E p \in Procs : CloseDb(p)

SpecDb ==
    /\ Init
    /\ [][NextDb]_vars
    /\ \A p \in Procs : WF_vars(HandlerReturns(p) \/ HandlerRaises(p))
    /\ \A p \in Procs : WF_vars(CloseDb(p))

(* The calculation routes *)
NextCalc ==
    \/ CreateCalculation
    \/ UpdateCalculation
    \/ ListCalculations
    \/ GetCalculation
    \/ DeleteCalculation

SpecCalc == Init /\ [][NextCalc]_vars

----------------------------------------------------------------------------
(* Vocabulary of the properties *)

Signed(tok, token_type) ==
    tok.key = (IF token_type = ACCESS THEN settings.JWT_SECRET_KEY
               ELSE settings.JWT_REFRESH_SECRET_KEY)

Has(tok, name) == name \in DOMAIN tok.claims

ExpElapsed(tok) == Has(tok, "exp") /\ tok.claims.exp < now

InStore(tok) == Has(tok, "jti") /\ tok.claims.jti \in DOMAIN blacklist

WellFormed(tok, token_type) ==
    /\ Signed(tok, token_type)
    /\ Has(tok, "type") /\ tok.claims.type = token_type
    /\ Has(tok, "sub") /\ Has(tok, "jti")

InvalidDetails ==
    {"Could not validate credentials", "Invalid token type", "Invalid token claims"}

Resolved == last.op = "get_current_user"

Decoded == last.op = "decode_token"

NoFailure == [ok |-> TRUE]

(* The failure of the first check that a resolution of tok fails, in the    *)
(* order signature, expiry, token type, required claims, revocation, user   *)
(* lookup, active flag; the revocation check also fails when the store      *)
(* cannot be asked.                                                         *)
FirstFailure(tok) ==
    IF ~Signed(tok, ACCESS) THEN Raise(401, "Could not validate credentials")
    ELSE IF ExpElapsed(tok) THEN Raise(401, "Token has expired")
    ELSE IF ~Has(tok, "type") \/ tok.claims.type # ACCESS
    THEN Raise(401, "Invalid token type")
    ELSE IF ~Has(tok, "sub") \/ ~Has(tok, "jti") THEN Raise(401, "Invalid token claims")
    ELSE IF ~storeUp THEN Raise(500, "ConnectionError")
    ELSE IF InStore(tok) THEN Raise(401, "Token has been revoked")
    ELSE IF \A u \in users : StrOf(u.id) # tok.claims.sub THEN Raise(404, "User not found")
    ELSE IF \E u \in users : StrOf(u.id) = tok.claims.sub /\ ~u.is_active
    THEN Raise(400, "Inactive user")
    ELSE NoFailure

----------------------------------------------------------------------------
(* C1: get_current_user returns a user only for a token that decodes with *)
(* the access secret, is not expired, has type access, carries sub and jti, *)
(* whose jti is not in the revocation store, and whose sub names an         *)
(* existing, active user; that user is the one returned.                    *)
C1_UserOnlyWhenAllHold ==
    (Resolved /\ last.res.ok) =>
        /\ WellFormed(last.token, ACCESS)
        /\ ~ExpElapsed(last.token)
        /\ storeUp
        /\ ~InStore(last.token)
        /\ \E u \in users :
              /\ StrOf(u.id) = last.token.claims.sub
              /\ u.is_active = TRUE
              /\ last.res.value = u

C1_Witness ==
    /\ Resolved /\ last.res.ok
    /\ \E u \in users : ~u.is_active

(* C2: a valid, unexpired access token whose jti is in the revocation     *)
(* store (the store answering) resolves to 401 'Token has been revoked'.  *)
C2_RevokedOutcome ==
    ( /\ Resolved
      /\ WellFormed(last.token, ACCESS)
      /\ ~ExpElapsed(last.token)
      /\ storeUp
      /\ InStore(last.token) ) =>
        /\ last.res = Raise(401, "Token has been revoked")
        /\ last.decoded = Raise(401, "Token has been revoked")

C2_Witness ==
    /\ Resolved
    /\ last.token \in IssuedTokens
    /\ last.res = Raise(401, "Token has been revoked")
    /\ \E u \in users : StrOf(u.id) = last.token.claims.sub /\ u.is_active

(* C3 as stated: once the jti of an issued token has been added with a    *)
(* TTL of at least the token's remaining lifetime, or once exp has        *)
(* passed, no resolution of the token succeeds.                           *)
C3_Original ==
    ( /\ Resolved
      /\ last.token \in IssuedTokens
      /\ \/ /\ last.token.claims.jti \in DOMAIN revokedUntil
            /\ revokedUntil[last.token.claims.jti] >= last.token.claims.exp
         \/ last.token.claims.exp < now ) =>
        ~last.res.ok

(* C3 amended: the same with a TTL strictly greater than the remaining    *)
(* lifetime (the entry outlives the last clock unit in which the token is *)
(* still accepted).                                                       *)
C3_DestroyedForGood ==
    ( /\ Resolved
      /\ last.token \in IssuedTokens
      /\ \/ /\ last.token.claims.jti \in DOMAIN revokedUntil
            /\ revokedUntil[last.token.claims.jti] > last.token.claims.exp
         \/ last.token.claims.exp < now ) =>
        ~last.res.ok

C3_Witness ==
    /\ Resolved
    /\ last.token \in IssuedTokens
    /\ last.token.claims.jti \in DOMAIN revokedUntil
    /\ revokedUntil[last.token.claims.jti] > last.token.claims.exp
    /\ now = last.token.claims.exp
    /\ storeUp
    /\ ~last.res.ok
    /\ \E u \in users : StrOf(u.id) = last.token.claims.sub /\ u.is_active

(* C4 as stated: an issued token decoded as the other type is rejected    *)
(* with an invalid-token outcome.                                         *)
C4_Original ==
    ( /\ Decoded
      /\ last.token \in IssuedTokens
      /\ last.token_type # last.token.claims.type ) =>
        /\ ~last.res.ok
        /\ last.res.status = 401
        /\ last.res.detail \in InvalidDetails

(* C4 amended: an issued token decoded as the other type is rejected; the *)
(* rejection is an invalid-token outcome, except that with equal secrets, *)
(* verify_exp true and exp elapsed it is the expired outcome.             *)
C4_CrossTypeRejected ==
    ( /\ Decoded
      /\ last.token \in IssuedTokens
      /\ last.token_type # last.token.claims.type ) =>
        /\ ~last.res.ok
        /\ last.res.status = 401
        /\ IF /\ settings.JWT_SECRET_KEY = settings.JWT_REFRESH_SECRET_KEY
              /\ last.verify_exp
              /\ last.token.claims.exp < now
           THEN last.res.detail = "Token has expired"
           ELSE last.res.detail \in InvalidDetails

C4_Witness ==
    /\ Decoded
    /\ last.token \in IssuedTokens
    /\ last.token_type # last.token.claims.type
    /\ settings.JWT_SECRET_KEY = settings.JWT_REFRESH_SECRET_KEY
    /\ last.res = Raise(401, "Invalid token type")

(* C5: a well-formed token of the expected type, not revoked, whose exp   *)
(* has elapsed: decode_token fails 'Token has expired' with verify_exp    *)
(* true and returns the claims with verify_exp false.                     *)
C5_ExpiredOrStructural ==
    ( /\ Decoded
      /\ WellFormed(last.token, last.token_type)
      /\ storeUp
      /\ ~InStore(last.token)
      /\ ExpElapsed(last.token) ) =>
        IF last.verify_exp
        THEN last.res = Raise(401, "Token has expired")
        ELSE last.res = Return(last.token.claims)

C5_Witness ==
    /\ Decoded
    /\ last.token \in IssuedTokens
    /\ ExpElapsed(last.token)
    /\ ~last.verify_exp
    /\ last.res = Return(last.token.claims)

(* C6: decoding an issued token as its own type, before expiry and not    *)
(* revoked, returns claims whose sub is the string form of the subject    *)
(* and whose type is the issued type.                                     *)
C6_RoundTrip ==
    \A i \in issued :
        ( /\ Decoded
          /\ last.token = i.token
          /\ last.token_type = i.token_type
          /\ now <= i.token.claims.exp
          /\ storeUp
          /\ ~InStore(i.token) ) =>
            /\ last.res.ok
            /\ last.res.value.sub = [kind |-> "str", v |-> i.user_id.v]
            /\ last.res.value.type = i.token_type

C6_Witness ==
    \E i \in issued :
        /\ Decoded
        /\ last.token = i.token
        /\ i.user_id.kind = "UUID"
        /\ i.token_type = REFRESH
        /\ settings.JWT_SECRET_KEY # settings.JWT_REFRESH_SECRET_KEY
        /\ last.res.ok
        /\ last.res.value.sub = [kind |-> "str", v |-> i.user_id.v]

(* C7: every token issued without an override has exp - iat equal to the  *)
(* configured lifetime of its type.                                       *)
C7_ExpMinusIat ==
    \A i \in issued :
        i.expires_delta = None =>
            i.token.claims.exp - i.token.claims.iat =
                (IF i.token_type = ACCESS THEN ACCESS_TOKEN_EXPIRE_MINUTES
                 ELSE REFRESH_TOKEN_EXPIRE_DAYS)

(* C8: an id added with a TTL is revoked from the add until the TTL has   *)
(* elapsed; an id never added is not revoked.                             *)
C8_RevokedForTTL ==
    \A j \in Jtis :
        /\ (j \in DOMAIN revokedUntil /\ now < revokedUntil[j]) => is_blacklisted(j)
        /\ j \notin DOMAIN revokedUntil => ~is_blacklisted(j)

C8_Witness ==
    \E j, k \in Jtis :
        /\ j \in DOMAIN revokedUntil
        /\ now + 1 = revokedUntil[j]
        /\ now >= 1
        /\ last.op = "none"
        /\ is_blacklisted(j)
        /\ k \notin DOMAIN revokedUntil

(* C10: with the revocation store unreachable, decode_token and           *)
(* get_current_user fail: no claims and no user are returned.             *)
C10_FailClosed ==
    (Resolved /\ ~storeUp) => (~last.decoded.ok /\ ~last.res.ok)

C10_Witness ==
    /\ Resolved
    /\ ~storeUp
    /\ WellFormed(last.token, ACCESS)
    /\ ~ExpElapsed(last.token)
    /\ last.decoded = Raise(500, "ConnectionError")
    /\ ~last.res.ok
    /\ \E u \in users : StrOf(u.id) = last.token.claims.sub /\ u.is_active

(* C9: whatever the interleaving of handlers, a resolution whose          *)
(* revocation check runs after an add of its jti has completed and before *)
(* that entry's TTL has ended fails as revoked and returns no user.       *)
C9_NoMissedRevocation ==
    \A p \in Procs :
        (req[p].pc \in {"lookup", "done"} /\ req[p].covered) =>
            /\ req[p].pc = "done"
            /\ req[p].res = Raise(401, "Token has been revoked")

C9_Witness ==
    \E p, q \in Procs :
        /\ p # q
        /\ req[p].pc = "done" /\ req[p].covered
        /\ req[p].res = Raise(401, "Token has been revoked")
        /\ req[q].pc = "done" /\ req[q].res.ok /\ ~req[q].covered

----------------------------------------------------------------------------
----------------------------------------------------------------------------
(* C14: in get_current_user a token that decode_token accepts fails with    *)
(* 404 'User not found' exactly when no user record has its subject, and    *)
(* with 400 'Inactive user' exactly when that user exists and is not        *)
(* active; neither case is answered with a 401.                             *)
C14_NotFoundVersusInactive ==
    (Resolved /\ last.decoded.ok) =>
        LET found == {u \in users : StrOf(u.id) = last.token.claims.sub} IN
        /\ (found = {}) <=> (last.res = Raise(404, "User not found"))
        /\ (found # {} /\ \A u \in found : ~u.is_active)
               <=> (last.res = Raise(400, "Inactive user"))
        /\ ~last.res.ok => last.res.status # 401

C14_Witness ==
    /\ Resolved
    /\ last.decoded.ok
    /\ \E u \in users : StrOf(u.id) = last.token.claims.sub /\ ~u.is_active
    /\ last.res = Raise(400, "Inactive user")

C14_WitnessNotFound ==
    /\ Resolved
    /\ last.decoded.ok
    /\ users # {}
    /\ last.res = Raise(404, "User not found")

----------------------------------------------------------------------------
(* C15: every token create_token has issued, whatever its subject, type and *)
(* expires_delta (None, zero, negative or positive), has exp strictly       *)
(* greater than iat.                                                        *)
C15_ExpAfterIat ==
    \A i \in issued : i.token.claims.exp > i.token.claims.iat

----------------------------------------------------------------------------
(* Vocabulary of the login properties *)

LoggedIn == last.op \in {"login_json", "login_form"}

NoSuchUser == \A u \in users : u.id # last.username

WrongPassword ==
    \E u \in users :
        /\ u.id = last.username
        /\ u.hashed_password # get_password_hash(last.password, u.hashed_password.salt)

(* C12: on POST /auth/login and POST /auth/token a login with an existing   *)
(* username and a wrong password, and a login with a username nobody has,   *)
(* get the same answer: 401, detail 'Invalid username or password', header  *)
(* WWW-Authenticate: Bearer; and such a login issues no token.              *)
C12_LoginFailuresAlike ==
    /\ [](LoggedIn /\ (NoSuchUser \/ WrongPassword)
            => last.res = [ok |-> FALSE, status |-> 401,
                           detail |-> "Invalid username or password",
                           headers |-> [WWW_Authenticate |-> "Bearer"]])
    /\ [][(LoggedIn /\ (NoSuchUser \/ WrongPassword))' => issued' = issued]_vars

C12_Witness ==
    /\ last.op = "login_form"
    /\ WrongPassword
    /\ ~last.res.ok
    /\ last.res.status = 401

C12_WitnessNoSuchUser ==
    /\ last.op = "login_json"
    /\ NoSuchUser
    /\ users # {}
    /\ ~last.res.ok
    /\ last.res.status = 401

----------------------------------------------------------------------------
(* Vocabulary of the refresh properties: the presented token at the time    *)
(* the request began (last.at)                                              *)

Refreshed == last.op = "refresh_token"

ValidRefreshToken ==
    /\ WellFormed(last.token, REFRESH)
    /\ Has(last.token, "exp") /\ last.token.claims.exp >= last.at
    /\ \/ last.token.claims.jti \notin DOMAIN revokedUntil
       \/ revokedUntil[last.token.claims.jti] <= last.at

OfActiveUser ==
    \E u \in users : StrOf(u.id) = last.token.claims.sub /\ u.is_active

(* C13: refresh with a correctly signed, unexpired, unrevoked token of type *)
(* refresh whose subject is an existing active user returns a new access    *)
(* token whose sub is the sub of the presented token and whose exp is the   *)
(* time of the refresh plus the access-token lifetime.                      *)
C13_RefreshedAccessToken ==
    (Refreshed /\ storeUp /\ ValidRefreshToken /\ OfActiveUser) =>
        /\ last.res.ok
        /\ last.res.value.access_token.claims.type = ACCESS
        /\ last.res.value.access_token.claims.sub = last.token.claims.sub
        /\ last.res.value.access_token.claims.exp
              = last.at + ACCESS_TOKEN_EXPIRE_MINUTES

C13_Witness ==
    /\ Refreshed
    /\ ValidRefreshToken
    /\ OfActiveUser
    /\ last.token.claims.iat < last.at
    /\ last.res.ok
    /\ last.res.value.access_token # last.token

----------------------------------------------------------------------------
(* C16: verify_password returns a boolean for every stored record; for a    *)
(* record that is not a hash the hasher can parse it returns false and      *)
(* does not raise.                                                          *)
C16_VerifyNeverRaises ==
    last.op = "verify_password" =>
        /\ last.res.ok
        /\ last.res.value \in BOOLEAN
        /\ last.hashed_password \in Malformed => last.res = Return(FALSE)

----------------------------------------------------------------------------
(* C17, as stated: every successful POST /auth/login response carries an    *)
(* expires_at that is timezone-aware and later than the time of the         *)
(* request, whatever the authentication result supplied.                    *)
C17_Original ==
    (last.op = "login_json" /\ last.res.ok) =>
        /\ last.res.value.expires_at.tzinfo = "utc"
        /\ last.res.value.expires_at.t > last.at

(* C17: every successful POST /auth/login response carries a timezone-aware *)
(* expires_at. It is the time of the response plus 15 minutes, hence later  *)
(* than the request, when the authentication result supplied no datetime;   *)
(* a supplied datetime keeps its instant, so it is later than the request   *)
(* exactly when the supplied one is.                                        *)
C17_AwareExpiry ==
    (last.op = "login_json" /\ last.res.ok) =>
        /\ last.res.value.expires_at.kind = "datetime"
        /\ last.res.value.expires_at.tzinfo = "utc"
        /\ last.supplied.kind # "datetime" =>
              /\ last.res.value.expires_at.t = now + LOGIN_DEFAULT_EXPIRE
              /\ last.res.value.expires_at.t > last.at
        /\ last.supplied.kind = "datetime" =>
              last.res.value.expires_at.t = last.supplied.t

C17_Witness ==
    /\ last.op = "login_json"
    /\ last.res.ok
    /\ last.supplied.kind = "datetime"
    /\ last.supplied.tzinfo = "naive"
    /\ last.res.value.expires_at.tzinfo = "utc"
    /\ last.res.value.expires_at.t <= last.at

----------------------------------------------------------------------------
(* Vocabulary of the calculation properties *)

Computed == last.op = "get_result"

(* the last request was user_id's GET, PUT or DELETE of calc_id; a PUT is  *)
(* one whose body passed validation, so that the handler ran              *)
OnCalculation(user_id, calc_id) ==
    /\ last.op \in {"get_calculation", "update_calculation", "delete_calculation"}
    /\ last.user_id = user_id
    /\ last.calc_id = calc_id
    /\ last.op = "update_calculation" => CalculationUpdate(last.update).ok

DeletedBy(user_id, calc_id) ==
    /\ last.op = "delete_calculation"
    /\ last.user_id = user_id
    /\ last.calc_id = calc_id
    /\ last.res.ok

NotFound == Raise(404, "Calculation not found.")

Listed(user_id) == last.op = "list_calculations" /\ last.user_id = user_id

Created == last.op = "create"

(* the spellings of a class name that differ in case only *)
Spellings(class) ==
    CASE class = "addition" -> {"addition", "Addition", "ADDITION"}
      [] class = "subtraction" -> {"subtraction", "SubTraction"}
      [] class = "multiplication" -> {"multiplication", "MULTIPLICATION"}
      [] class = "division" -> {"division", "Division"}
      [] class = "modulus" -> {"modulus", "MODULUS"}

AtLeastTwo == last.inputs.kind = "list" /\ Len(last.inputs.items) >= 2

ZeroAfterFirst == \E i \in 2..Len(last.inputs.items) : last.inputs.items[i] = 0

ZeroDivisor == last.type \in {"division", "modulus"} /\ ZeroAfterFirst

(* op applied from the left: ((x1 op x2) op x3) ... *)
FoldLeft(Op(_, _), first, values) ==
    LET f[i \in 0..Len(values)] ==
            IF i = 0 THEN first ELSE Op(f[i - 1], values[i])
    IN  f[Len(values)]

Plus(a, b) == a + b
Minus(a, b) == a - b
Times(a, b) == a * b

(* the quotient q = <<n, d>> divided by b *)
Over(q, b) == Quotient(q[1], q[2] * b)

(* the r with a = b * k + r for a whole k, between 0 and b, b excluded *)
Remainder(a, b) ==
    CHOOSE r \in (0 - Abs(b))..Abs(b) :
        /\ \E k \in (0 - Abs(a) - 1)..(Abs(a) + 1) : a = b * k + r
        /\ IF b > 0 THEN 0 <= r /\ r < b ELSE b < r /\ r <= 0

(* C19: for a list of at least two numbers with no zero divisor, get_result *)
(* is the operator of the type applied from left to right: the sum, the     *)
(* product, x1 - x2 - ..., x1 / x2 / ..., x1 % x2 % ....                    *)
C19_LeftToRightFold ==
    (Computed /\ AtLeastTwo /\ ~ZeroDivisor) =>
        LET first == Head(last.inputs.items)
            rest == Tail(last.inputs.items)
        IN  last.res =
              Return(CASE last.type = "addition" -> FoldLeft(Plus, first, rest)
                       [] last.type = "subtraction" -> FoldLeft(Minus, first, rest)
                       [] last.type = "multiplication" -> FoldLeft(Times, first, rest)
                       [] last.type = "division" -> FoldLeft(Over, <<first, 1>>, rest)
                       [] last.type = "modulus" -> FoldLeft(Remainder, first, rest))

C19_Witness ==
    /\ Computed
    /\ AtLeastTwo
    /\ ~ZeroDivisor
    /\ last.type = "modulus"
    /\ Len(last.inputs.items) = 3
    /\ Head(last.inputs.items) < 0
    /\ last.res.ok
    /\ last.res.value > 0

(* C20: Division.get_result raises ValueError 'Cannot divide by zero.'      *)
(* exactly when an input after the first is zero, wherever it stands and    *)
(* whatever the other inputs are; a zero first input alone does not raise.  *)
C20_DivideByZero ==
    (Computed /\ AtLeastTwo /\ last.type = "division") =>
        /\ ZeroAfterFirst <=> (last.res = ValueError("Cannot divide by zero."))
        /\ ~ZeroAfterFirst => last.res.ok

C20_Witness ==
    /\ Computed
    /\ last.type = "division"
    /\ AtLeastTwo
    /\ Len(last.inputs.items) = 3
    /\ last.inputs.items[2] # 0
    /\ last.inputs.items[3] = 0
    /\ last.res = ValueError("Cannot divide by zero.")

C20_WitnessZeroFirst ==
    /\ Computed
    /\ last.type = "division"
    /\ AtLeastTwo
    /\ Head(last.inputs.items) = 0
    /\ last.res.ok

----------------------------------------------------------------------------
(* C18: after any successful POST /calculations and PUT /calculations/{id}  *)
(* requests, the result of every stored calculation is get_result of its    *)
(* type on the inputs it now stores; a successful PUT with inputs stores    *)
(* those inputs and the result computed from them, in that calculation and  *)
(* no other, and a successful PUT without inputs changes no calculation.    *)
C18_ResultFollowsInputs ==
    /\ [](\A c \in calcs : get_result(c.type, List(c.inputs)) = Return(c.result))
    /\ [][(last'.op = "update_calculation" /\ last'.res.ok) =>
             IF last'.update = None
             THEN calcs' = calcs
             ELSE \E c \in calcs :
                     /\ c.id = last'.calc_id
                     /\ calcs' = (calcs \ {c}) \cup
                          {[c EXCEPT !.inputs = last'.update[1],
                                     !.result = get_result(c.type,
                                                   List(last'.update[1])).value]}]_vars

C18_Witness ==
    /\ last.op = "update_calculation"
    /\ last.res.ok
    /\ last.update # None
    /\ Cardinality(calcs) = MaxCalcs
    /\ \E c \in calcs : c.id = last.calc_id /\ c.type = "division" /\ c.result # <<0, 1>>

C18_WitnessNoInputs ==
    /\ last.op = "update_calculation"
    /\ last.res.ok
    /\ last.update = None

----------------------------------------------------------------------------
(* C21: for each of the five calculation types get_result raises ValueError *)
(* 'Inputs must be a list of numbers.' when inputs is not a list and        *)
(* ValueError 'Inputs must be a list with at least two numbers.' when it is *)
(* a list of fewer than two elements; no result is computed in either case. *)
C21_InputsValidated ==
    Computed =>
        /\ last.inputs.kind # "list" =>
              last.res = [ok |-> FALSE, exc |-> "ValueError",
                          detail |-> "Inputs must be a list of numbers."]
        /\ (last.inputs.kind = "list" /\ Len(last.inputs.items) < 2) =>
              last.res = [ok |-> FALSE, exc |-> "ValueError",
                          detail |-> "Inputs must be a list with at least two numbers."]

C21_Witness ==
    /\ Computed
    /\ last.type = "modulus"
    /\ last.inputs.kind = "list"
    /\ Len(last.inputs.items) = 1
    /\ ~last.res.ok

C21_WitnessNotAList ==
    /\ Computed
    /\ last.type = "multiplication"
    /\ last.inputs.kind # "list"
    /\ ~last.res.ok

(* C22: Calculation.create returns an instance of exactly the class named  *)
(* by calculation_type compared without regard to case, carrying the given *)
(* user_id and inputs, and raises ValueError 'Unsupported calculation      *)
(* type: ...' for every other type string.                                 *)
C22_FactoryByName ==
    Created =>
        IF \E class \in CalculationClasses : last.calculation_type \in Spellings(class)
        THEN /\ last.res.ok
             /\ last.calculation_type \in Spellings(last.res.value.type)
             /\ last.res.value.user_id = last.user_id
             /\ last.res.value.inputs = last.inputs
        ELSE last.res = [ok |-> FALSE, exc |-> "ValueError",
                         detail |-> <<"Unsupported calculation type: ",
                                      last.calculation_type>>]

C22_Witness ==
    /\ Created
    /\ last.calculation_type = "MULTIPLICATION"
    /\ last.res.ok
    /\ last.res.value.type = "multiplication"

C22_WitnessUnsupported ==
    /\ Created
    /\ last.calculation_type = "Power"
    /\ ~last.res.ok

(* C23: after DELETE /calculations/{id} succeeded (204) for a calculation   *)
(* of the current user, every later GET, PUT or DELETE of that id by that   *)
(* user answers 404 'Calculation not found.', and the calculation no longer *)
(* appears in that user's GET /calculations.                                *)
C23_DeletedStaysGone ==
    \A user_id \in UserIds, calc_id \in CalcIds :
        [](DeletedBy(user_id, calc_id) =>
             [](/\ \A c \in calcs : c.id # calc_id
                /\ (OnCalculation(user_id, calc_id) /\ ~DeletedBy(user_id, calc_id))
                      => last.res = NotFound
                /\ Listed(user_id) =>
                      \A i \in 1..Len(last.res.value) : last.res.value[i].id # calc_id))

C23_Witness ==
    /\ last.op = "get_calculation"
    /\ last.calc_id \in uuids
    /\ \A c \in calcs : c.id # last.calc_id
    /\ last.res = NotFound

(* C24: GET, PUT and DELETE /calculations/{id} answer 400 'Invalid          *)
(* calculation id format.' when the id is not a well-formed UUID, and 404   *)
(* 'Calculation not found.' when it is well-formed but matches no           *)
(* calculation of the current user; in both cases the stored calculations   *)
(* are unchanged.                                                           *)
C24_BadIdRejected ==
    [][(\E user_id \in UserIds, calc_id \in CalcIds \cup {NotAUuid} :
            OnCalculation(user_id, calc_id))' =>
          /\ last'.calc_id = NotAUuid =>
                /\ last'.res = Raise(400, "Invalid calculation id format.")
                /\ calcs' = calcs
          /\ (/\ last'.calc_id # NotAUuid
              /\ \A c \in calcs : ~(c.id = last'.calc_id /\ c.user_id = last'.user_id)) =>
                /\ last'.res = NotFound
                /\ calcs' = calcs]_vars

C24_Witness ==
    /\ last.op = "update_calculation"
    /\ last.update # None
    /\ last.res = NotFound
    /\ \E c \in calcs : c.id = last.calc_id /\ c.user_id # last.user_id

C24_WitnessNotAUuid ==
    /\ last.op = "delete_calculation"
    /\ last.calc_id = NotAUuid
    /\ last.res = Raise(400, "Invalid calculation id format.")
    /\ calcs # {}

(* C29: ownership isolation. A request made as user B never returns,        *)
(* modifies or deletes a calculation of another user A: B's get, update or  *)
(* delete of a calculation of A answers 404 and leaves it unchanged, and    *)
(* B's list holds only calculations whose user_id is B.                     *)
C29_OwnershipIsolation ==
    /\ []((last.op \in {"get_calculation", "update_calculation", "create_calculation"}
             /\ last.res.ok) => last.res.value.user_id = last.user_id)
    /\ [](last.op = "list_calculations" =>
             \A i \in 1..Len(last.res.value) : last.res.value[i].user_id = last.user_id)
    /\ [][last'.op \in {"create_calculation", "list_calculations", "get_calculation",
                         "update_calculation", "delete_calculation"} =>
             /\ {c \in calcs' : c.user_id # last'.user_id}
                   = {c \in calcs : c.user_id # last'.user_id}
             /\ (/\ \E user_id \in UserIds, calc_id \in CalcIds :
                         OnCalculation(user_id, calc_id)'
                 /\ \E c \in calcs : c.id = last'.calc_id /\ c.user_id # last'.user_id)
                   => last'.res = NotFound]_vars

C29_Witness ==
    /\ last.op = "delete_calculation"
    /\ last.res = NotFound
    /\ \E c \in calcs : c.id = last.calc_id /\ c.user_id # last.user_id

C29_WitnessList ==
    /\ last.op = "list_calculations"
    /\ Len(last.res.value) = 1
    /\ \E c \in calcs : c.user_id # last.user_id

(* C25: get_db opens one session per request and always closes it: every    *)
(* session opened is eventually closed, and closed exactly once, whether    *)
(* the handler returns normally or raises.                                  *)
C25_SessionClosedOnce ==
    /\ [](\A s \in DOMAIN sessions : sessions[s] <= 1)
    /\ [](\A p \in Procs, q \in Procs :
            (p # q /\ "db" \in DOMAIN req[p] /\ "db" \in DOMAIN req[q])
                => req[p].db # req[q].db)
    /\ \A s \in 1..MaxSessions :
          (s \in DOMAIN sessions) ~> [](s \in DOMAIN sessions /\ sessions[s] = 1)

C25_Witness ==
    /\ Len(sessions) = MaxSessions
    /\ \A s \in DOMAIN sessions : sessions[s] = 1
    /\ \E p \in Procs : req[p].pc = "done" /\ req[p].outcome = "raised"

(* C26: a refresh token is one-time-use: the refresh that issues the new    *)
(* pair revokes the refresh token it was given, so that once a refresh has  *)
(* succeeded the token it was given is in the revocation store and a        *)
(* refresh with it is refused.                                              *)
C26_RefreshTokenUsedOnce ==
    (Refreshed /\ last.res.ok) =>
        /\ InStore(last.token)
        /\ ~CheckRefresh(last.token).ok

(* C27: a resolution reports the failure of the first check that fails in   *)
(* the fixed order signature, expiry, token type, required claims,          *)
(* revocation, user lookup, active flag, and succeeds when none fails: an   *)
(* expired token that is also revoked fails as expired, a revoked token     *)
(* whose subject no longer exists fails as revoked (401) and not as user    *)
(* not found (404), a token with a bad signature fails as invalid even when *)
(* it is also expired.                                                      *)
C27_FirstFailureReported ==
    Resolved =>
        IF FirstFailure(last.token) = NoFailure
        THEN last.res.ok
        ELSE last.res = FirstFailure(last.token)

C27_Witness ==
    /\ Resolved
    /\ Signed(last.token, ACCESS)
    /\ ExpElapsed(last.token)
    /\ storeUp /\ InStore(last.token)
    /\ last.res = Raise(401, "Token has expired")

C27_WitnessRevokedNoUser ==
    /\ Resolved
    /\ storeUp /\ InStore(last.token)
    /\ Has(last.token, "sub")
    /\ \A u \in users : StrOf(u.id) # last.token.claims.sub
    /\ last.res = Raise(401, "Token has been revoked")

C27_WitnessForgedExpired ==
    /\ Resolved
    /\ ~Signed(last.token, ACCESS)
    /\ ExpElapsed(last.token)
    /\ last.res = Raise(401, "Could not validate credentials")

(* C28: whenever create_token is given an expires_delta, a zero duration    *)
(* included, the token's exp is the issue time plus that duration; the      *)
(* default lifetime of the type is used only when none is given. The issue  *)
(* time is a reading of the clock during the call: the one that dates iat,  *)
(* or one at most MaxSkew before it.                                        *)
C28_OverrideAlwaysUsed ==
    \A i \in issued :
        i.expires_delta # None =>
            \E skew \in 0..MaxSkew :
                i.token.claims.exp = (i.token.claims.iat - skew) + i.expires_delta[1]

(* C30: for every calculation type and every list of numbers get_result     *)
(* returns a number or raises ValueError; in particular a zero divisor in   *)
(* a modulus, as in a division, raises ValueError.                          *)
C30_ResultOrValueError ==
    (Computed /\ last.inputs.kind = "list") =>
        \/ last.res.ok
        \/ "exc" \in DOMAIN last.res /\ last.res.exc = "ValueError"

====
